---------------------------- MODULE Spec2Model ----------------------------
(***************************************************************************)
(* RationelMind AI (app.py): one Streamlit script.  Every run of the       *)
(* script loads the credential, and a click on "Generate Intelligence      *)
(* Report" validates the upload, reads the PDFs, calls the hosted model,   *)
(* extracts a JSON object from the reply with a greedy regular expression  *)
(* and prints seven sections.                                              *)
(*                                                                         *)
(* Text is modelled as a sequence of lexemes (a brace, a bracket, a colon, *)
(* a comma, white space, a string literal, a number, a literal name, a run *)
(* of prose).  The only characters the regular expression looks for are    *)
(* the two braces, and they occur as the brace lexemes or inside a string  *)
(* literal; json.loads is a recursive descent over the same lexemes.       *)
(***************************************************************************)
EXTENDS Integers, Sequences, FiniteSets, TLC

VARIABLES
    api_key,         \* TRUE iff os.getenv("GEMINI_API_KEY") is set (line 14)
    uploaded_files,  \* the file_uploader's value: a sequence of files
    pc,              \* where the script run stands
    failedBefore,    \* TRUE iff an earlier request of the session failed
    out,             \* the page: display items emitted by the current run
    response,        \* the model's reply text (lexemes), <<>> before the call
    parsed_data,     \* the dict clean_and_parse_json returned, JNull before
    nRead,           \* file.read() calls made by the current run
    nCall,           \* generate_content calls made by the current run
    caught           \* type of the exception the run's except clause caught

vars == <<api_key, uploaded_files, pc, failedBefore, out, response, parsed_data,
          nRead, nCall, caught>>

---------------------------------------------------------------------------
(* Bounds of the model.                                                    *)

MaxFiles == 3
MaxReplyLen == 2

---------------------------------------------------------------------------
(* Lexemes.                                                                *)

Tok(k, s, n) == [k |-> k, s |-> s, n |-> n]

LB == Tok("lb", "", 0)
RB == Tok("rb", "", 0)
LK == Tok("lk", "", 0)
RK == Tok("rk", "", 0)
COLON == Tok("colon", "", 0)
COMMA == Tok("comma", "", 0)
WS == Tok("ws", "", 0)
QUOTE == Tok("quote", "", 0)
TStr(s) == Tok("str", s, 0)
TNum(n) == Tok("num", "", n)
TLit(s) == Tok("lit", s, 0)
Noise(n) == Tok("noise", "", n)
Frag(n) == Tok("frag", "", n)

\* Number of characters of a lexeme.
CharLen(t) ==
    CASE t.k = "str" -> Len(t.s) + 2
      [] t.k = "lit" -> Len(t.s)
      [] t.k \in {"noise", "frag"} -> t.n
      [] OTHER -> 1

HasLB(t) == t.k = "lb" \/ (t.k = "str" /\ t.s = "{")
HasRB(t) == t.k = "rb" \/ (t.k = "str" /\ t.s = "}")

---------------------------------------------------------------------------
(* JSON values as Python holds them.  A dict is the sequence of its        *)
(* members in insertion order.                                             *)

JV(t, s, n, l) == [t |-> t, s |-> s, n |-> n, l |-> l]
JNull == JV("null", "", 0, <<>>)
JBool(b) == JV("bool", "", IF b THEN 1 ELSE 0, <<>>)
JNum(n) == JV("num", "", n, <<>>)
JStr(s) == JV("str", s, 0, <<>>)
JList(l) == JV("list", "", 0, l)
JObj(m) == JV("obj", "", 0, m)
Mem(k, v) == [k |-> k, v |-> v]

HasKey(d, k) == \E i \in 1..Len(d.l) : d.l[i].k = k
Lookup(d, k) == d.l[CHOOSE i \in 1..Len(d.l) : d.l[i].k = k].v

\* d[k] = v on a Python dict: an existing key keeps its place.
Put(m, k, v) ==
    IF \E i \in 1..Len(m) : m[i].k = k
    THEN [i \in 1..Len(m) |-> IF m[i].k = k THEN Mem(k, v) ELSE m[i]]
    ELSE Append(m, Mem(k, v))

---------------------------------------------------------------------------
(* json.loads: the decoder of the standard library, lexeme by lexeme.      *)

Last(q) == q[Len(q)]

PR(ok, val, pos, err) == [ok |-> ok, val |-> val, pos |-> pos, err |-> err]
PFail(pos, err) == PR(FALSE, JNull, pos, err)

At(toks, i) == IF i \in 1..Len(toks) THEN toks[i] ELSE Tok("eof", "", 0)

RECURSIVE SkipWs(_, _)
SkipWs(toks, i) ==
    IF At(toks, i).k = "ws" THEN SkipWs(toks, i + 1) ELSE i

\* A lone quote opens a string that runs to the next quote character.  The
\* text after that one is a string's content or a closing brace, never a
\* colon, so a key that starts at a lone quote is never followed by ':'.
QuoteLater(toks, i) ==
    \E j \in (i + 1)..Len(toks) : toks[j].k \in {"str", "quote"}

RECURSIVE ParseValue(_, _)
RECURSIVE ParseMembers(_, _, _)
RECURSIVE ParseElements(_, _, _)

\* JSONObject, after the opening brace and white space: "key" : value
\* repeated, separated by commas, up to the closing brace.
ParseMembers(toks, i, acc) ==
    LET t == At(toks, i) IN
    IF t.k = "quote"
    THEN PFail(i, IF QuoteLater(toks, i) THEN "Expecting ':' delimiter"
                  ELSE "Unterminated string starting at")
    ELSE IF t.k # "str"
    THEN PFail(i, "Expecting property name enclosed in double quotes")
    ELSE
    LET c == SkipWs(toks, i + 1) IN
    IF At(toks, c).k # "colon" THEN PFail(c, "Expecting ':' delimiter")
    ELSE
    LET v == ParseValue(toks, SkipWs(toks, c + 1)) IN
    IF ~v.ok THEN v
    ELSE
    LET e == SkipWs(toks, v.pos)
        m == Put(acc, t.s, v.val)
    IN  CASE At(toks, e).k = "rb" -> PR(TRUE, JObj(m), e + 1, "")
          [] At(toks, e).k = "comma" -> ParseMembers(toks, SkipWs(toks, e + 1), m)
          [] OTHER -> PFail(e, "Expecting ',' delimiter")

\* JSONArray, after the opening bracket and white space.
ParseElements(toks, i, acc) ==
    LET v == ParseValue(toks, i) IN
    IF ~v.ok THEN v
    ELSE
    LET e == SkipWs(toks, v.pos)
        l == Append(acc, v.val)
    IN  CASE At(toks, e).k = "rk" -> PR(TRUE, JList(l), e + 1, "")
          [] At(toks, e).k = "comma" -> ParseElements(toks, SkipWs(toks, e + 1), l)
          [] OTHER -> PFail(e, "Expecting ',' delimiter")

\* scan_once: one JSON value starting at lexeme i.
ParseValue(toks, i) ==
    LET t == At(toks, i) IN
    CASE t.k = "str" -> PR(TRUE, JStr(t.s), i + 1, "")
      [] t.k = "num" -> PR(TRUE, JNum(t.n), i + 1, "")
      [] t.k = "lit" ->
            PR(TRUE, IF t.s = "null" THEN JNull ELSE JBool(t.s = "true"), i + 1, "")
      [] t.k = "quote" -> PFail(i, "Unterminated string starting at")
      [] t.k = "lb" ->
            LET j == SkipWs(toks, i + 1) IN
            IF At(toks, j).k = "rb" THEN PR(TRUE, JObj(<<>>), j + 1, "")
            ELSE ParseMembers(toks, j, <<>>)
      [] t.k = "lk" ->
            LET j == SkipWs(toks, i + 1) IN
            IF At(toks, j).k = "rk" THEN PR(TRUE, JList(<<>>), j + 1, "")
            ELSE ParseElements(toks, j, <<>>)
      [] OTHER -> PFail(i, "Expecting value")

\* JSONDecoder.decode: one value, white space around it, nothing after.
json_loads(toks) ==
    LET v == ParseValue(toks, SkipWs(toks, 1)) IN
    IF ~v.ok THEN v
    ELSE LET e == SkipWs(toks, v.pos) IN
         IF e # Len(toks) + 1 THEN PFail(e, "Extra data") ELSE v

\* str.strip(): white space off both ends.
RECURSIVE strip(_)
strip(toks) ==
    IF toks = <<>> THEN toks
    ELSE IF Head(toks).k = "ws" THEN strip(Tail(toks))
    ELSE IF toks[Len(toks)].k = "ws" THEN strip(SubSeq(toks, 1, Len(toks) - 1))
    ELSE toks

---------------------------------------------------------------------------
(* json.dumps with the default separators ", " and ": ".                   *)

RECURSIVE json_dumps(_)
RECURSIVE DumpMembers(_, _)
RECURSIVE DumpElements(_, _)

DumpMembers(m, i) ==
    IF i > Len(m) THEN <<>>
    ELSE (IF i > 1 THEN <<COMMA, WS>> ELSE <<>>)
         \o <<TStr(m[i].k), COLON, WS>> \o json_dumps(m[i].v)
         \o DumpMembers(m, i + 1)

DumpElements(l, i) ==
    IF i > Len(l) THEN <<>>
    ELSE (IF i > 1 THEN <<COMMA, WS>> ELSE <<>>)
         \o json_dumps(l[i]) \o DumpElements(l, i + 1)

json_dumps(v) ==
    CASE v.t = "null" -> <<TLit("null")>>
      [] v.t = "bool" -> <<TLit(IF v.n = 1 THEN "true" ELSE "false")>>
      [] v.t = "num" -> <<TNum(v.n)>>
      [] v.t = "str" -> <<TStr(v.s)>>
      [] v.t = "list" -> <<LK>> \o DumpElements(v.l, 1) \o <<RK>>
      [] v.t = "obj" -> <<LB>> \o DumpMembers(v.l, 1) \o <<RB>>

---------------------------------------------------------------------------
(* clean_and_parse_json (lines 71-75).                                     *)

\* response_text[:n]: the lexemes that fit, and what is left of the lexeme
\* the cut falls in.
RECURSIVE Prefix(_, _)
Prefix(toks, n) ==
    IF toks = <<>> \/ n <= 0 THEN <<>>
    ELSE LET t == Head(toks) IN
         IF CharLen(t) <= n THEN <<t>> \o Prefix(Tail(toks), n - CharLen(t))
         ELSE IF t.k = "noise" THEN <<Noise(n)>> ELSE <<Frag(n)>>

RawLimit == 500

\* re.search(r'\{[\s\S]*\}', text): the leftmost '{' at which a match
\* exists, then as many characters as possible up to a '}'.  first = 0 when
\* there is no match.
FirstLB(toks) ==
    IF \E i \in 1..Len(toks) : HasLB(toks[i])
    THEN CHOOSE i \in 1..Len(toks) :
            HasLB(toks[i]) /\ \A j \in 1..(i - 1) : ~HasLB(toks[j])
    ELSE 0

LastRB(toks) ==
    IF \E i \in 1..Len(toks) : HasRB(toks[i])
    THEN CHOOSE i \in 1..Len(toks) :
            HasRB(toks[i]) /\ \A j \in (i + 1)..Len(toks) : ~HasRB(toks[j])
    ELSE 0

\* The lazy pattern \{[\s\S]*?\}: up to the first '}' after the '{'.
re_search_lazy(toks) ==
    LET f == FirstLB(toks) IN
    IF f = 0 \/ ~\E j \in (f + 1)..Len(toks) : HasRB(toks[j])
    THEN [found |-> FALSE, first |-> 0, last |-> 0]
    ELSE [found |-> TRUE, first |-> f,
          last |-> CHOOSE j \in (f + 1)..Len(toks) :
                      HasRB(toks[j]) /\ \A i \in (f + 1)..(j - 1) : ~HasRB(toks[i])]

\* A search for the two braces apart, text.find('{') and text.rfind('}'),
\* that does not compare the places.
re_search_unordered(toks) ==
    LET f == FirstLB(toks)
        l == LastRB(toks)
    IN  IF f = 0 \/ l = 0 THEN [found |-> FALSE, first |-> 0, last |-> 0]
        ELSE [found |-> TRUE, first |-> f, last |-> l]

re_search(toks) ==
    LET f == FirstLB(toks)
        l == LastRB(toks)
    IN  IF f = 0 \/ l <= f THEN [found |-> FALSE, first |-> 0, last |-> 0]
        ELSE [found |-> TRUE, first |-> f, last |-> l]

\* match.group(0): from the '{' to the '}'.  A brace inside a string literal
\* leaves the literal's other quote behind.
group0(toks, m) ==
    (IF toks[m.first].k = "lb" THEN <<LB>> ELSE <<LB, QUOTE>>)
    \o SubSeq(toks, m.first + 1, m.last - 1)
    \o (IF toks[m.last].k = "rb" THEN <<RB>> ELSE <<QUOTE, RB>>)

\* An exception: its class, its message, and the reply excerpts the message
\* embeds.  The line and column a JSONDecodeError adds are left out.
Exc(type, msg, raw) == [type |-> type, msg |-> msg, raw |-> raw]
NoExc == Exc("", "", <<>>)
Raised(r) == r.exc.type # ""
Ret(val) == [exc |-> NoExc, val |-> val]
Raise(e) == [exc |-> e, val |-> JNull]

NoJsonMsg == "No valid JSON found in response. RAW (first 500 chars):"

clean_and_parse_json(response_text) ==
    LET match == re_search(response_text) IN
    IF ~match.found
    THEN Raise(Exc("ValueError", NoJsonMsg, <<Prefix(response_text, RawLimit)>>))
    ELSE LET r == json_loads(strip(group0(response_text, match))) IN
         IF r.ok THEN Ret(r.val)
         ELSE Raise(Exc("JSONDecodeError", r.err, <<>>))

---------------------------------------------------------------------------
(* The Python operations the rendering code applies to the parsed data.    *)

TypeName(v) ==
    CASE v.t = "null" -> "NoneType"
      [] v.t = "bool" -> "bool"
      [] v.t = "num" -> "int"
      [] v.t = "str" -> "str"
      [] v.t = "list" -> "list"
      [] v.t = "obj" -> "dict"

\* d.get(k, default): only a dict has the method; a key that is present
\* gives its value, null included.
py_get(d, k, default) ==
    IF d.t # "obj"
    THEN Raise(Exc("AttributeError",
                   "'" \o TypeName(d) \o "' object has no attribute 'get'", <<>>))
    ELSE Ret(IF HasKey(d, k) THEN Lookup(d, k) ELSE default)

\* bool(v)
Truthy(v) ==
    CASE v.t = "null" -> FALSE
      [] v.t \in {"bool", "num"} -> v.n # 0
      [] v.t = "str" -> v.s # ""
      [] OTHER -> v.l # <<>>

\* a or b
py_or(a, b) == IF Truthy(a) THEN a ELSE b

\* The characters of the strings of more than one character that the
\* replies of the model hold where a list is expected.
Spelling == [s \in {"ab"} |-> <<"a", "b">>]

Chars(s) ==
    IF s = "" THEN <<>> ELSE IF Len(s) = 1 THEN <<s>> ELSE Spelling[s]

\* for x in v: the elements of a list, the keys of a dict, the characters
\* of a string; nothing else is iterable.
py_iter(v) ==
    CASE v.t = "list" -> Ret(v)
      [] v.t = "obj" -> Ret(JList([i \in 1..Len(v.l) |-> JStr(v.l[i].k)]))
      [] v.t = "str" ->
            Ret(JList([i \in 1..Len(Chars(v.s)) |-> JStr(Chars(v.s)[i])]))
      [] OTHER ->
            Raise(Exc("TypeError",
                      "'" \o TypeName(v) \o "' object is not iterable", <<>>))

\* str(v) and repr(v), as an f-string field formats a value.
RECURSIVE py_repr(_)
RECURSIVE ReprElements(_, _)
RECURSIVE ReprMembers(_, _)

ReprElements(l, i) ==
    IF i > Len(l) THEN ""
    ELSE (IF i > 1 THEN ", " ELSE "") \o py_repr(l[i]) \o ReprElements(l, i + 1)

ReprMembers(m, i) ==
    IF i > Len(m) THEN ""
    ELSE (IF i > 1 THEN ", " ELSE "") \o "'" \o m[i].k \o "': "
         \o py_repr(m[i].v) \o ReprMembers(m, i + 1)

py_repr(v) ==
    CASE v.t = "null" -> "None"
      [] v.t = "bool" -> IF v.n = 1 THEN "True" ELSE "False"
      [] v.t = "num" -> ToString(v.n)
      [] v.t = "str" -> "'" \o v.s \o "'"
      [] v.t = "list" -> "[" \o ReprElements(v.l, 1) \o "]"
      [] v.t = "obj" -> "{" \o ReprMembers(v.l, 1) \o "}"

py_str(v) == IF v.t = "str" THEN v.s ELSE py_repr(v)

---------------------------------------------------------------------------
(* The page.  A display item is the Streamlit call that made it, the text  *)
(* of its template, the strings formatted into the template's fields, and  *)
(* the texts (lexemes) embedded in it.                                     *)

Item(kind, text, args, raw) ==
    [kind |-> kind, text |-> text, args |-> args, raw |-> raw]
Header(text) == Item("header", text, <<>>, <<>>)
Markdown(text, args) == Item("markdown", text, args, <<>>)

\* What a section emitted before it finished or raised.
SR(items, exc) == [items |-> items, exc |-> exc]

\* The items with the repeated ones dropped, as a loop over dict.fromkeys
\* would print them.
RECURSIVE Distinct(_)
Distinct(l) ==
    IF l = <<>> THEN <<>>
    ELSE LET front == Distinct(SubSeq(l, 1, Len(l) - 1)) IN
         IF \E i \in 1..Len(front) : front[i] = Last(l)
         THEN front ELSE Append(front, Last(l))

BulletsDistinct(l) ==
    [i \in 1..Len(Distinct(l)) |-> Markdown("- {c}", <<py_str(Distinct(l)[i])>>)]

\* st.markdown(f"- {c}") for each c, in order.
Bullets(l) == [i \in 1..Len(l) |-> Markdown("- {c}", <<py_str(l[i])>>)]

\* The chain without the inner default: parsed_data.get(a).get(b, default).
get2NoDefault(d, a, b, default) ==
    LET g == py_get(d, a, JNull) IN
    IF Raised(g) THEN g ELSE py_get(g.val, b, default)

\* parsed_data.get(a, {}).get(b, default)
get2(d, a, b, default) ==
    LET g == py_get(d, a, JObj(<<>>)) IN
    IF Raised(g) THEN g ELSE py_get(g.val, b, default)

\* The two keys in the other order.
filename_of_paper_first(item) ==
    py_or(py_or(py_get(item, "paper", JNull).val,
                py_get(item, "filename", JNull).val),
          JStr("Unknown Paper"))

\* item.get("filename") or item.get("paper") or "Unknown Paper"
\* (lines 126, 135, 146); the item is a dict when this is evaluated.
filename_of(item) ==
    py_or(py_or(py_get(item, "filename", JNull).val,
                py_get(item, "paper", JNull).val),
          JStr("Unknown Paper"))

\* item.get("unique") or item.get("constructs", [])   (line 127)
constructs_of(item) ==
    py_or(py_get(item, "unique", JNull).val,
          py_get(item, "constructs", JList(<<>>)).val)

\* Lines 119-121.
Section1(d) ==
    LET h == <<Header("1. Shared Constructs")>>
        g == get2(d, "construct_analysis", "shared", JList(<<>>))
    IN  IF Raised(g) THEN SR(h, g.exc)
        ELSE LET it == py_iter(g.val) IN
             IF Raised(it) THEN SR(h, it.exc)
             ELSE SR(h \o Bullets(it.val.l), NoExc)

\* The body of the loop of lines 125-130, from item i on.
RECURSIVE UniqueLoop(_, _)
UniqueLoop(l, i) ==
    IF i > Len(l) THEN SR(<<>>, NoExc)
    ELSE
    LET g == py_get(l[i], "filename", JNull) IN
    IF Raised(g) THEN SR(<<>>, g.exc)
    ELSE
    LET head == <<Markdown("**{filename}**", <<py_str(filename_of(l[i]))>>)>>
        it == py_iter(constructs_of(l[i]))
    IN  IF Raised(it) THEN SR(head, it.exc)
        ELSE LET rest == UniqueLoop(l, i + 1) IN
             SR(head \o Bullets(it.val.l) \o rest.items, rest.exc)

\* Lines 124-130.
Section2(d) ==
    LET h == <<Header("2. Unique Constructs by Paper")>>
        g == get2(d, "construct_analysis", "unique_by_paper", JList(<<>>))
    IN  IF Raised(g) THEN SR(h, g.exc)
        ELSE LET it == py_iter(g.val) IN
             IF Raised(it) THEN SR(h, it.exc)
             ELSE LET r == UniqueLoop(it.val.l, 1) IN SR(h \o r.items, r.exc)

\* The body of the loop of lines 134-139, from paper i on.
RECURSIVE SummaryLoop(_, _)
SummaryLoop(l, i) ==
    IF i > Len(l) THEN SR(<<>>, NoExc)
    ELSE
    LET paper == l[i]
        g == py_get(paper, "filename", JNull)
    IN
    IF Raised(g) THEN SR(<<>>, g.exc)
    ELSE
    LET two ==
          <<Markdown("**{filename} ({authors})**",
                     <<py_str(filename_of(paper)),
                       py_str(py_get(paper, "authors", JStr("Unknown")).val)>>),
            Markdown("- Summary: {summary}",
                     <<py_str(py_get(paper, "summary",
                                     JStr("No summary provided")).val)>>)>>
        bias == py_get(paper, "bias_assessment", JObj(<<>>)).val
        lv == py_get(bias, "level", JStr("Unknown"))
    IN  IF Raised(lv) THEN SR(two, lv.exc)
        ELSE LET rest == SummaryLoop(l, i + 1)
                 b == Markdown("- Bias: {level} ({justification})",
                        <<py_str(lv.val),
                          py_str(py_get(bias, "justification",
                                        JStr("No justification")).val)>>)
             IN  SR(two \o <<b>> \o rest.items, rest.exc)

\* Lines 133-139.
Section3(d) ==
    LET h == <<Header("3. Paper Summaries & Bias Assessment")>>
        g == py_get(d, "paper_summaries", JList(<<>>))
    IN  IF Raised(g) THEN SR(h, g.exc)
        ELSE LET it == py_iter(g.val) IN
             IF Raised(it) THEN SR(h, it.exc)
             ELSE LET r == SummaryLoop(it.val.l, 1) IN SR(h \o r.items, r.exc)

\* The body of the loop of lines 145-147, from stance i on.
RECURSIVE StanceLoop(_, _)
StanceLoop(l, i) ==
    IF i > Len(l) THEN SR(<<>>, NoExc)
    ELSE
    LET stance == l[i]
        g == py_get(stance, "filename", JNull)
    IN
    IF Raised(g) THEN SR(<<>>, g.exc)
    ELSE LET rest == StanceLoop(l, i + 1)
             b == Markdown("- {filename} ({authors}): {stance}",
                    <<py_str(filename_of(stance)),
                      py_str(py_get(stance, "authors", JStr("Unknown")).val),
                      py_str(py_get(stance, "stance", JStr("No stance")).val)>>)
         IN  SR(<<b>> \o rest.items, rest.exc)

\* Lines 142-147.
Section4(d) ==
    LET h == <<Header("4. Causal Contradiction / Stances")>>
        t == get2(d, "causal_contradiction", "central_thesis", JStr("Not provided"))
    IN  IF Raised(t) THEN SR(h, t.exc)
        ELSE
        LET h2 == h \o <<Markdown("**Central Thesis:** {thesis}", <<py_str(t.val)>>)>>
            g == get2(d, "causal_contradiction", "stances", JList(<<>>))
        IN  IF Raised(g) THEN SR(h2, g.exc)
            ELSE LET it == py_iter(g.val) IN
                 IF Raised(it) THEN SR(h2, it.exc)
                 ELSE LET r == StanceLoop(it.val.l, 1) IN SR(h2 \o r.items, r.exc)

\* parsed_data.get('causal_contradiction', {}).get('graph', {}).get(k, [])
graph_part(d, k) ==
    LET g == get2(d, "causal_contradiction", "graph", JObj(<<>>)) IN
    IF Raised(g) THEN g ELSE py_get(g.val, k, JList(<<>>))

\* Lines 150-169: the f-string is built, nodes then edges, before
\* components.html is called.
Section5(d) ==
    LET h == <<Header("5. Visual Conflict Graph")>>
        n == graph_part(d, "nodes")
        e == graph_part(d, "edges")
    IN  IF Raised(n) THEN SR(h, n.exc)
        ELSE IF Raised(e) THEN SR(h, e.exc)
        ELSE SR(h \o <<Item("html", "new vis.Network(container, data, options)",
                            <<>>, <<json_dumps(n.val), json_dumps(e.val)>>)>>,
                NoExc)

NoRecommendation == "No specific paper could be recommended from the references."

\* Lines 172-178.
Section6(d) ==
    LET h == <<Header("6. Reference Intelligence")>>
        ref == py_get(d, "reference_intelligence", JObj(<<>>)).val
        f == py_get(ref, "recommendation_found", JBool(FALSE))
    IN  IF Raised(f) THEN SR(h, f.exc)
        ELSE IF Truthy(f.val)
        THEN SR(h \o <<Markdown("**Recommended Paper:** {recommended_paper_title}",
                         <<py_str(py_get(ref, "recommended_paper_title", JStr("")).val)>>),
                       Markdown("{justification}",
                         <<py_str(py_get(ref, "justification", JStr("")).val)>>)>>,
                NoExc)
        ELSE SR(h \o <<Markdown(NoRecommendation, <<>>)>>, NoExc)

\* The body of the loop of lines 182-183, from connection i on.
RECURSIVE ConnectionLoop(_, _)
ConnectionLoop(l, i) ==
    IF i > Len(l) THEN SR(<<>>, NoExc)
    ELSE
    LET f == py_get(l[i], "field", JStr("Unknown")) IN
    IF Raised(f) THEN SR(<<>>, f.exc)
    ELSE LET rest == ConnectionLoop(l, i + 1)
             b == Markdown("- **{field}**: {connection}",
                    <<py_str(f.val),
                      py_str(py_get(l[i], "connection",
                                    JStr("No connection provided")).val)>>)
         IN  SR(<<b>> \o rest.items, rest.exc)

\* Lines 181-183.
Section7(d) ==
    LET h == <<Header("7. Multidisciplinary Connections")>>
        g == py_get(d, "multidisciplinary_connections", JList(<<>>))
    IN  IF Raised(g) THEN SR(h, g.exc)
        ELSE LET it == py_iter(g.val) IN
             IF Raised(it) THEN SR(h, it.exc)
             ELSE LET r == ConnectionLoop(it.val.l, 1) IN SR(h \o r.items, r.exc)

---------------------------------------------------------------------------
(* The replies the hosted model may give.                                  *)

O1(k, v) == JObj(<<Mem(k, v)>>)
O2(k, v, k2, v2) == JObj(<<Mem(k, v), Mem(k2, v2)>>)
Strs(l) == JList([i \in 1..Len(l) |-> JStr(l[i])])

\* Values of "construct_analysis" (lines 43-46).
ConstructAnalyses ==
    { JObj(<<>>),
      JNull,
      O2("shared", Strs(<<"b", "a", "b">>),
         "unique_by_paper",
         JList(<< O2("filename", JStr("P1"), "unique", Strs(<<"y", "x", "y">>)),
                  O2("paper", JStr("P2"), "constructs", Strs(<<"x">>)),
                  JObj(<<>>),
                  JObj(<<Mem("paper", JStr("Q4")), Mem("filename", JStr("P4")),
                         Mem("constructs", Strs(<<"c">>)),
                         Mem("unique", Strs(<<"u">>))>>) >>)),
      O2("shared", JStr("ab"),
         "unique_by_paper",
         JList(<< JObj(<<Mem("filename", JStr("")), Mem("paper", JStr("P5")),
                         Mem("unique", JList(<<>>)),
                         Mem("constructs", Strs(<<"c">>))>>),
                  O2("filename", JNull, "paper", JStr("P6")) >>)) }

\* Values of "paper_summaries" (line 47).
PaperSummaries ==
    { JList(<< JObj(<<Mem("filename", JStr("P1")), Mem("authors", JStr("A1")),
                      Mem("summary", JStr("S1")),
                      Mem("bias_assessment",
                          O2("level", JStr("Low"), "justification", JStr("J1")))>>),
               O2("paper", JStr("P2"), "bias_assessment", JObj(<<>>)),
               JObj(<<>>),
               O2("filename", JStr(""), "paper", JStr("P7")) >>),
      JList(<< O2("filename", JStr("P1"), "bias_assessment", JStr("Low")) >>) }

\* Values of "causal_contradiction" (lines 48-55).
CausalContradictions ==
    { JObj(<<>>),
      JObj(<<Mem("central_thesis", JStr("T")),
             Mem("stances",
                 JList(<< JObj(<<Mem("filename", JStr("P2")), Mem("authors", JStr("A2")),
                                 Mem("stance", JStr("con"))>>),
                          O1("paper", JStr("P1")),
                          JObj(<<Mem("filename", JStr("P2")), Mem("authors", JStr("A2")),
                                 Mem("stance", JStr("con"))>>),
                          O2("filename", JNum(0), "paper", JStr("P3")) >>)),
             Mem("graph",
                 O2("nodes", JList(<<O2("id", JNum(2), "label", JStr("P2")),
                                     O1("id", JNum(1))>>),
                    "edges", JList(<<O2("from", JNum(2), "to", JNum(1))>>)))>>),
      O2("central_thesis", JNull, "graph", JNull) }

\* Values of "reference_intelligence" (lines 56-60).
ReferenceIntelligences ==
    { JObj(<<Mem("recommendation_found", JBool(TRUE)),
             Mem("recommended_paper_title", JStr("R")),
             Mem("justification", JStr("J"))>>),
      O1("recommendation_found", JBool(TRUE)),
      O2("recommendation_found", JBool(FALSE), "recommended_paper_title", JStr("R")) }

\* Values of "multidisciplinary_connections" (line 61).
Connections ==
    { JList(<< O2("field", JStr("F2"), "connection", JStr("C2")),
               O1("field", JStr("F1")),
               JObj(<<>>),
               O2("field", JStr("F2"), "connection", JStr("C2")) >>),
      JNum(7) }

\* The marker of a key the reply leaves out.
Absent == JV("absent", "", 0, <<>>)

Member(k, v) == IF v = Absent THEN <<>> ELSE <<Mem(k, v)>>

\* The objects the prompt asks for (lines 41-62), each key there or not.
Docs ==
    { JObj(Member("construct_analysis", ca) \o Member("paper_summaries", ps)
           \o Member("causal_contradiction", cc)
           \o Member("reference_intelligence", ri)
           \o Member("multidisciplinary_connections", mc)) :
        ca \in ConstructAnalyses \cup {Absent},
        ps \in PaperSummaries \cup {Absent},
        cc \in CausalContradictions \cup {Absent},
        ri \in ReferenceIntelligences \cup {Absent},
        mc \in Connections \cup {Absent} }

\* The lexemes of the short replies.
Alphabet == {LB, RB, WS, Noise(5), TStr("{"), TStr("}")}

RECURSIVE SeqsUpTo(_, _)
SeqsUpTo(S, n) ==
    IF n = 0 THEN {<<>>}
    ELSE LET shorter == SeqsUpTo(S, n - 1) IN
         shorter \cup {Append(q, x) : q \in shorter, x \in S}

\* Replies written out: an object in prose, two objects, a repeated key, an
\* object in a markdown fence, prose longer than the excerpt, a brace in a
\* string of an object, an array of objects.
Examples ==
    { <<Noise(5), WS, LB, TStr("title"), COLON, WS, TStr("X"), RB, WS, Noise(14)>>,
      <<LB, TStr("a"), COLON, TNum(1), RB, WS, LB, TStr("b"), COLON, TNum(2), RB>>,
      <<LB, RB, WS, LB, RB>>,
      <<LB, TStr("a"), COLON, TNum(1), COMMA, TStr("a"), COLON, TNum(2), RB>>,
      <<Noise(7), WS>> \o json_dumps(O1("paper_summaries", JList(<<>>))) \o <<WS, Noise(3)>>,
      <<Noise(600)>>,
      <<Noise(498), TStr("abc"), RB>>,
      <<LB, TStr("a"), COLON, TStr("}"), RB>>,
      <<LB, TStr("a"), COLON, TStr("}")>>,
      <<LB, TStr("a"), COLON, TNum(1), COMMA, RB>>,
      <<LB, TStr("a"), TNum(1), RB>>,
      <<LK, LB, RB, COMMA, LB, RB, RK>>,
      <<LB, TStr("a"), COLON, LK, TNum(1), COMMA, TLit("true"), RK, RB>> }

Replies ==
    {json_dumps(d) : d \in Docs} \cup SeqsUpTo(Alphabet, MaxReplyLen) \cup Examples

---------------------------------------------------------------------------
(* The script.                                                             *)

\* An uploaded file: its name and whether fitz.open accepts its bytes.
File(name, ok) == [name |-> name, ok |-> ok]
FileNames == <<"a.pdf", "b.pdf", "c.pdf", "d.pdf">>
Uploads ==
    UNION { {[i \in 1..n |-> File(FileNames[i], oks[i])] : oks \in [1..n -> BOOLEAN]} :
            n \in 0..MaxFiles }

KeyMissing == "GEMINI_API_KEY not found. Set it in your Streamlit secrets or .env file."

\* Lines 13-18 and 78-86: what every run of the script prints before it
\* comes to the button.
Top(key) ==
    (IF ~key THEN <<Item("error", KeyMissing, <<>>, <<>>)>> ELSE <<>>)
    \o <<Item("title", "RationelMind AI - Research Intelligence", <<>>, <<>>),
         Item("write", "Upload 2-3 PDFs to generate a deep intelligence report.",
              <<>>, <<>>)>>

TooFewFiles == Item("error", "Please upload at least 2 PDFs.", <<>>, <<>>)
Success == Item("success", "Analysis complete!", <<>>, <<>>)
Failure(e) == Item("error", "Analysis Failed: {e}", <<e.msg>>, e.raw)

\* The classes the exceptions of the model belong to, all of them
\* subclasses of Exception.
ExceptionTypes ==
    {"ValueError", "JSONDecodeError", "AttributeError", "TypeError",
     "FileDataError", "GoogleAPIError"}

\* A narrower clause, except ValueError: JSONDecodeError is its subclass.
HandlesValueError(e) == e.type \in {"ValueError", "JSONDecodeError"}

\* except Exception (line 185): whether the clause takes e.
Handles(e) == e.type \in ExceptionTypes

\* Lines 185-186; an exception the clause does not take ends the run in
\* Streamlit's own traceback.
Except(page, e) ==
    IF Handles(e)
    THEN /\ out' = Append(page, Failure(e))
         /\ caught' = e.type
         /\ pc' = "done"
    ELSE /\ out' = Append(page, Item("exception", e.type, <<e.msg>>, e.raw))
         /\ caught' = ""
         /\ pc' = "uncaught"

Finished == pc \in {"idle", "done", "uncaught"}

\* The check without its length test: not uploaded_files.
TooFewEmptyOnly(files) == files = <<>>

\* not uploaded_files or len(uploaded_files) < 2   (line 89)
TooFew(files) == files = <<>> \/ Len(files) < 2

Init ==
    /\ api_key \in BOOLEAN
    /\ uploaded_files = <<>>
    /\ pc = "idle"
    /\ failedBefore = FALSE
    /\ out = Top(api_key)
    /\ response = <<>>
    /\ parsed_data = JNull
    /\ nRead = 0
    /\ nCall = 0
    /\ caught = ""

\* The user changes the upload: the script runs again, the button not
\* pressed.
Upload ==
    /\ Finished
    /\ \E fs \in Uploads : uploaded_files' = fs /\ fs # uploaded_files
    /\ pc' = "idle"
    /\ failedBefore' = (failedBefore \/ pc = "uncaught" \/ caught # "")
    /\ out' = Top(api_key)
    /\ response' = <<>>
    /\ parsed_data' = JNull
    /\ nRead' = 0
    /\ nCall' = 0
    /\ caught' = ""
    /\ UNCHANGED api_key

\* The button is pressed: the script runs again, and lines 88-92 decide.
Click ==
    /\ Finished
    /\ failedBefore' = (failedBefore \/ pc = "uncaught" \/ caught # "")
    /\ response' = <<>>
    /\ parsed_data' = JNull
    /\ nRead' = 0
    /\ nCall' = 0
    /\ caught' = ""
    /\ IF TooFew(uploaded_files)
       THEN out' = Append(Top(api_key), TooFewFiles) /\ pc' = "done"
       ELSE out' = Top(api_key) /\ pc' = "read"
    /\ UNCHANGED <<api_key, uploaded_files>>

\* Index of the first file fitz.open rejects, 0 when there is none.
FirstBad(files) ==
    IF \E i \in 1..Len(files) : ~files[i].ok
    THEN CHOOSE i \in 1..Len(files) :
            ~files[i].ok /\ \A j \in 1..(i - 1) : files[j].ok
    ELSE 0

\* Lines 95-103: every file is read and opened in turn.
ReadFiles ==
    /\ pc = "read"
    /\ LET b == FirstBad(uploaded_files) IN
       IF b = 0
       THEN /\ nRead' = Len(uploaded_files)
            /\ pc' = "call"
            /\ UNCHANGED <<out, caught>>
       ELSE /\ nRead' = b
            /\ Except(out, Exc("FileDataError", "Failed to open stream", <<>>))
    /\ UNCHANGED <<api_key, uploaded_files, failedBefore, response, parsed_data, nCall>>

\* Lines 106-111: the call is made whatever api_key is; the service
\* answers or the library raises.
CallModel ==
    /\ pc = "call"
    /\ nCall' = nCall + 1
    /\ \/ /\ \E r \in Replies : response' = r
          /\ pc' = "parse"
          /\ UNCHANGED <<out, caught>>
       \/ /\ Except(out, Exc("GoogleAPIError", "the request failed", <<>>))
          /\ UNCHANGED response
    /\ UNCHANGED <<api_key, uploaded_files, failedBefore, parsed_data, nRead>>

\* Lines 114-116.
Parse ==
    /\ pc = "parse"
    /\ LET r == clean_and_parse_json(response) IN
       IF Raised(r)
       THEN Except(out, r.exc) /\ UNCHANGED parsed_data
       ELSE /\ parsed_data' = r.val
            /\ out' = Append(out, Success)
            /\ pc' = "s1"
            /\ UNCHANGED caught
    /\ UNCHANGED <<api_key, uploaded_files, failedBefore, response, nRead, nCall>>

\* One section of lines 118-183: what it emits goes to the page, and what
\* it raises goes to the except clause.
RenderStep(at, next, sr) ==
    /\ pc = at
    /\ IF sr.exc.type # ""
       THEN Except(out \o sr.items, sr.exc)
       ELSE /\ out' = out \o sr.items
            /\ pc' = next
            /\ UNCHANGED caught
    /\ UNCHANGED <<api_key, uploaded_files, failedBefore, response, parsed_data,
                   nRead, nCall>>

RenderShared == RenderStep("s1", "s2", Section1(parsed_data))
RenderUnique == RenderStep("s2", "s3", Section2(parsed_data))
RenderSummaries == RenderStep("s3", "s4", Section3(parsed_data))
RenderContradiction == RenderStep("s4", "s5", Section4(parsed_data))
RenderGraph == RenderStep("s5", "s6", Section5(parsed_data))
RenderReference == RenderStep("s6", "s7", Section6(parsed_data))
RenderConnections == RenderStep("s7", "done", Section7(parsed_data))

Next ==
    \/ Upload
    \/ Click
    \/ ReadFiles
    \/ CallModel
    \/ Parse
    \/ RenderShared
    \/ RenderUnique
    \/ RenderSummaries
    \/ RenderContradiction
    \/ RenderGraph
    \/ RenderReference
    \/ RenderConnections

Spec == Init /\ [][Next]_vars

---------------------------------------------------------------------------
(* Reading the page and the parsed reply.                                  *)

Titles ==
    <<"1. Shared Constructs", "2. Unique Constructs by Paper",
      "3. Paper Summaries & Bias Assessment", "4. Causal Contradiction / Stances",
      "5. Visual Conflict Graph", "6. Reference Intelligence",
      "7. Multidisciplinary Connections">>

\* Place of the k-th section's header on the page, 0 when it is not there.
HeaderAt(k) ==
    IF \E i \in 1..Len(out) : out[i] = Header(Titles[k])
    THEN CHOOSE i \in 1..Len(out) : out[i] = Header(Titles[k])
    ELSE 0

\* The request ran to the end of the script without an exception.
Rendered == pc = "done" /\ caught = "" /\ HeaderAt(7) # 0

\* On such a page, the items of the k-th section after its header.
Sec(k) ==
    SubSeq(out, HeaderAt(k) + 1, IF k = 7 THEN Len(out) ELSE HeaderAt(k + 1) - 1)

\* The reply was given and clean_and_parse_json has run on it.
AfterParse ==
    /\ nCall = 1
    /\ caught # "GoogleAPIError"
    /\ pc \in {"s1", "s2", "s3", "s4", "s5", "s6", "s7", "done"}

Has(d, k) == d.t = "obj" /\ HasKey(d, k)
Field(d, k, default) == IF Has(d, k) THEN Lookup(d, k) ELSE default

TheAnalysis == Field(parsed_data, "construct_analysis", JObj(<<>>))
TheShared == Field(TheAnalysis, "shared", JList(<<>>))
TheUnique == Field(TheAnalysis, "unique_by_paper", JList(<<>>))
TheSummaries == Field(parsed_data, "paper_summaries", JList(<<>>))
TheContradiction == Field(parsed_data, "causal_contradiction", JObj(<<>>))
TheStances == Field(TheContradiction, "stances", JList(<<>>))
TheGraph == Field(TheContradiction, "graph", JObj(<<>>))
TheReference == Field(parsed_data, "reference_intelligence", JObj(<<>>))
TheConnections == Field(parsed_data, "multidisciplinary_connections", JList(<<>>))

ReportKeys ==
    {"construct_analysis", "paper_summaries", "causal_contradiction",
     "reference_intelligence", "multidisciplinary_connections"}

IsList(v) == v.t = "list"
ListOfObjects(v) == v.t = "list" /\ \A i \in 1..Len(v.l) : v.l[i].t = "obj"

\* Every key that is present holds a value of the kind the prompt's format
\* gives it (lines 41-62): an object, a list, a list of objects.
WellTyped(d) ==
    /\ Has(d, "construct_analysis") =>
          /\ TheAnalysis.t = "obj"
          /\ Has(TheAnalysis, "shared") => IsList(TheShared)
          /\ Has(TheAnalysis, "unique_by_paper") =>
                /\ ListOfObjects(TheUnique)
                /\ \A i \in 1..Len(TheUnique.l) :
                      /\ Has(TheUnique.l[i], "unique") =>
                            IsList(Lookup(TheUnique.l[i], "unique"))
                      /\ Has(TheUnique.l[i], "constructs") =>
                            IsList(Lookup(TheUnique.l[i], "constructs"))
    /\ Has(d, "paper_summaries") =>
          /\ ListOfObjects(TheSummaries)
          /\ \A i \in 1..Len(TheSummaries.l) :
                Has(TheSummaries.l[i], "bias_assessment") =>
                    Lookup(TheSummaries.l[i], "bias_assessment").t = "obj"
    /\ Has(d, "causal_contradiction") =>
          /\ TheContradiction.t = "obj"
          /\ Has(TheContradiction, "stances") => ListOfObjects(TheStances)
          /\ Has(TheContradiction, "graph") => TheGraph.t = "obj"
    /\ Has(d, "reference_intelligence") => TheReference.t = "obj"
    /\ Has(d, "multidisciplinary_connections") => ListOfObjects(TheConnections)

\* The identifier of an item by the first of "filename", "paper" whose value
\* is truthy, and by the first that is present.
TruthyId(item) ==
    IF Has(item, "filename") /\ Truthy(Lookup(item, "filename"))
    THEN Lookup(item, "filename")
    ELSE IF Has(item, "paper") /\ Truthy(Lookup(item, "paper"))
    THEN Lookup(item, "paper")
    ELSE JStr("Unknown Paper")

PresentId(item) ==
    IF Has(item, "filename") THEN Lookup(item, "filename")
    ELSE IF Has(item, "paper") THEN Lookup(item, "paper")
    ELSE JStr("Unknown Paper")

TruthyConstructs(item) ==
    IF Has(item, "unique") /\ Truthy(Lookup(item, "unique"))
    THEN Lookup(item, "unique")
    ELSE Field(item, "constructs", JList(<<>>))

PresentConstructs(item) ==
    IF Has(item, "unique") THEN Lookup(item, "unique")
    ELSE Field(item, "constructs", JList(<<>>))

\* Section 2 as it is to read: per item a heading and a bullet per construct,
\* the keys resolved by value (truthy) or by presence.
IdOf(item, truthy) == IF truthy THEN TruthyId(item) ELSE PresentId(item)
ConstructsOf(item, truthy) ==
    IF truthy THEN TruthyConstructs(item) ELSE PresentConstructs(item)

RECURSIVE UniqueAsRead(_, _, _)
UniqueAsRead(l, i, truthy) ==
    IF i > Len(l) THEN <<>>
    ELSE <<Markdown("**{filename}**", <<py_str(IdOf(l[i], truthy))>>)>>
         \o [j \in 1..Len(ConstructsOf(l[i], truthy).l) |->
                Markdown("- {c}", <<py_str(ConstructsOf(l[i], truthy).l[j])>>)]
         \o UniqueAsRead(l, i + 1, truthy)

---------------------------------------------------------------------------
(* The claims.                                                             *)

\* C1: a failure raised while a request is processed (opening a file, the
\* model call, the extraction, the rendering) is caught in that request and
\* shown as the failure message, the last item of the page; no run of the
\* script ends in an uncaught exception; a request that is not refused
\* either shows the failure or all seven sections; and a request starts
\* from the same state whatever the requests before it did.
C1_FailuresCaught ==
    /\ pc # "uncaught"
    /\ caught # "" =>
          /\ pc = "done"
          /\ Last(out).kind = "error"
          /\ Last(out).text = "Analysis Failed: {e}"
    /\ (pc = "done" /\ Len(uploaded_files) >= 2) =>
          /\ FirstBad(uploaded_files) # 0 => caught = "FileDataError"
          /\ (nCall = 1 /\ caught # "GoogleAPIError"
                /\ Raised(clean_and_parse_json(response))) =>
                caught = clean_and_parse_json(response).exc.type
          /\ caught = "" => HeaderAt(7) # 0
    /\ pc = "read" =>
          /\ out = Top(api_key)
          /\ response = <<>>
          /\ parsed_data = JNull
          /\ nRead = 0 /\ nCall = 0 /\ caught = ""

\* A request after a failed one that printed the whole report.
C1_Witness == failedBefore /\ Rendered /\ parsed_data.l # <<>>

\* C2: with fewer than two files uploaded the request prints the validation
\* message and nothing else: no file is read, the model is not called, and
\* there is no success message and no section.
C2_TooFewFilesRefused ==
    Len(uploaded_files) < 2 =>
        /\ pc \in {"idle", "done"}
        /\ nRead = 0 /\ nCall = 0 /\ response = <<>>
        /\ pc = "done" => out = Append(Top(api_key), TooFewFiles)

\* One file uploaded, the button pressed.
C2_Witness ==
    pc = "done" /\ Len(uploaded_files) = 1 /\ Last(out) = TooFewFiles

\* C3: with no credential the model is never called.
C3_NoCallWithoutKey == ~api_key => nCall = 0

\* C4 as the specification has it: for a reply that is the report's object
\* with keys missing, rendering does not fail, and a missing string field is
\* displayed as the empty string.
C4_MissingShownEmpty ==
    (pc = "done" /\ parsed_data.t = "obj" /\ WellTyped(parsed_data)
       /\ \E k \in ReportKeys : ~Has(parsed_data, k)) =>
        /\ caught = ""
        /\ ~Has(TheContradiction, "central_thesis") =>
              Sec(4)[1].args = <<"">>
        /\ IsList(TheConnections) =>
              \A i \in 1..Len(TheConnections.l) :
                  ~Has(TheConnections.l[i], "connection") =>
                      Sec(7)[i].args[2] = ""

\* C4, amended: a missing key never makes rendering fail (a failure after a
\* successful parse is an AttributeError or TypeError, and only when a key
\* that is present holds a value of the wrong kind), and what is displayed
\* for a missing field is the default the code gives it: nothing for a
\* missing list, [] for missing nodes or edges, the fixed message for a
\* missing recommendation_found (false), the empty string for a missing
\* recommended_paper_title or justification of the reference, and a fixed
\* placeholder for every other string.
C4_MissingKeysDefaulted ==
    /\ (pc = "done" /\ parsed_data.t = "obj" /\ caught # "") =>
          /\ caught \in {"AttributeError", "TypeError"}
          /\ ~WellTyped(parsed_data)
    /\ Rendered =>
          /\ ~Has(TheAnalysis, "shared") => Sec(1) = <<>>
          /\ ~Has(TheAnalysis, "unique_by_paper") => Sec(2) = <<>>
          /\ ~Has(parsed_data, "paper_summaries") => Sec(3) = <<>>
          /\ ~Has(TheContradiction, "central_thesis") =>
                Sec(4)[1].args = <<"Not provided">>
          /\ ~Has(TheContradiction, "stances") => Len(Sec(4)) = 1
          /\ ~Has(TheGraph, "nodes") => Sec(5)[1].raw[1] = <<LK, RK>>
          /\ ~Has(TheGraph, "edges") => Sec(5)[1].raw[2] = <<LK, RK>>
          /\ ~Has(TheReference, "recommendation_found") =>
                Sec(6) = <<Markdown(NoRecommendation, <<>>)>>
          /\ (Has(TheReference, "recommendation_found")
                /\ Truthy(Lookup(TheReference, "recommendation_found"))) =>
                /\ ~Has(TheReference, "recommended_paper_title") =>
                      Sec(6)[1].args = <<"">>
                /\ ~Has(TheReference, "justification") => Sec(6)[2].args = <<"">>
          /\ ~Has(parsed_data, "multidisciplinary_connections") => Sec(7) = <<>>
          /\ IsList(TheSummaries) =>
                \A i \in 1..Len(TheSummaries.l) :
                    LET paper == TheSummaries.l[i]
                        bias == Field(paper, "bias_assessment", JObj(<<>>))
                    IN  /\ (~Has(paper, "filename") /\ ~Has(paper, "paper")) =>
                              Sec(3)[3 * i - 2].args[1] = "Unknown Paper"
                        /\ ~Has(paper, "authors") =>
                              Sec(3)[3 * i - 2].args[2] = "Unknown"
                        /\ ~Has(paper, "summary") =>
                              Sec(3)[3 * i - 1].args = <<"No summary provided">>
                        /\ ~Has(bias, "level") => Sec(3)[3 * i].args[1] = "Unknown"
                        /\ ~Has(bias, "justification") =>
                              Sec(3)[3 * i].args[2] = "No justification"
          /\ IsList(TheStances) =>
                \A i \in 1..Len(TheStances.l) :
                    LET stance == TheStances.l[i] IN
                    /\ (~Has(stance, "filename") /\ ~Has(stance, "paper")) =>
                          Sec(4)[1 + i].args[1] = "Unknown Paper"
                    /\ ~Has(stance, "authors") => Sec(4)[1 + i].args[2] = "Unknown"
                    /\ ~Has(stance, "stance") => Sec(4)[1 + i].args[3] = "No stance"
          /\ IsList(TheConnections) =>
                \A i \in 1..Len(TheConnections.l) :
                    /\ ~Has(TheConnections.l[i], "field") =>
                          Sec(7)[i].args[1] = "Unknown"
                    /\ ~Has(TheConnections.l[i], "connection") =>
                          Sec(7)[i].args[2] = "No connection provided"

\* A whole report printed from a reply that has only two of the five keys,
\* with items that lack fields.
C4_Witness ==
    /\ Rendered
    /\ ~Has(parsed_data, "construct_analysis")
    /\ ~Has(parsed_data, "causal_contradiction")
    /\ ~Has(parsed_data, "reference_intelligence")
    /\ Len(TheSummaries.l) > 2
    /\ Len(TheConnections.l) > 2

\* C5 as the specification has it: the first key that is present decides,
\* whatever its value.
C5_FirstPresentKey ==
    Rendered =>
        /\ IsList(TheUnique) => Sec(2) = UniqueAsRead(TheUnique.l, 1, FALSE)
        /\ IsList(TheSummaries) =>
              \A i \in 1..Len(TheSummaries.l) :
                  Sec(3)[3 * i - 2].args[1] = py_str(PresentId(TheSummaries.l[i]))
        /\ IsList(TheStances) =>
              \A i \in 1..Len(TheStances.l) :
                  Sec(4)[1 + i].args[1] = py_str(PresentId(TheStances.l[i]))

\* C5, amended: the identifier of a uniqueByPaper, paperSummaries or stances
\* item is the value of the first key among filename, paper whose value is
\* truthy (not null, not empty, not zero), "Unknown Paper" when there is
\* none; the construct list is the value of unique when that is truthy, and
\* otherwise the value of constructs, [] when constructs is missing.  An item
\* {paper: P2, constructs: [x]} is shown as P2 with x, and a primary key with
\* a truthy value is never overridden by the alternate key.
C5_FirstTruthyKey ==
    Rendered =>
        /\ IsList(TheUnique) => Sec(2) = UniqueAsRead(TheUnique.l, 1, TRUE)
        /\ IsList(TheSummaries) =>
              \A i \in 1..Len(TheSummaries.l) :
                  Sec(3)[3 * i - 2].args[1] = py_str(TruthyId(TheSummaries.l[i]))
        /\ IsList(TheStances) =>
              \A i \in 1..Len(TheStances.l) :
                  Sec(4)[1 + i].args[1] = py_str(TruthyId(TheStances.l[i]))
        /\ \A i \in 1..Len(TheUnique.l) :
              TheUnique.l[i] = O2("paper", JStr("P2"), "constructs", Strs(<<"x">>)) =>
                  \E j \in 1..(Len(Sec(2)) - 1) :
                      /\ Sec(2)[j] = Markdown("**{filename}**", <<"P2">>)
                      /\ Sec(2)[j + 1] = Markdown("- {c}", <<"x">>)

\* A whole report with an item that has only the alternate keys and an item
\* that has both pairs of keys.
C5_Witness ==
    /\ Rendered
    /\ \E i \in 1..Len(TheUnique.l) :
          /\ ~Has(TheUnique.l[i], "filename") /\ Has(TheUnique.l[i], "paper")
          /\ ~Has(TheUnique.l[i], "unique") /\ Has(TheUnique.l[i], "constructs")
    /\ \E i \in 1..Len(TheUnique.l) :
          /\ Has(TheUnique.l[i], "filename") /\ Has(TheUnique.l[i], "paper")
          /\ Has(TheUnique.l[i], "unique") /\ Has(TheUnique.l[i], "constructs")
    /\ \E i \in 1..Len(TheStances.l) :
          ~Has(TheStances.l[i], "filename") /\ Has(TheStances.l[i], "paper")

\* The places of the braces in a reply, and the text from the first '{' to
\* the last '}'.
Opens(r) == {i \in 1..Len(r) : HasLB(r[i])}
Closes(r) == {j \in 1..Len(r) : HasRB(r[j])}
SpanExists(r) == \E i \in Opens(r), j \in Closes(r) : i < j
Least(S) == CHOOSE x \in S : \A y \in S : x <= y
Greatest(S) == CHOOSE x \in S : \A y \in S : y <= x
OuterSpan(r) ==
    group0(r, [found |-> TRUE, first |-> Least(Opens(r)), last |-> Greatest(Closes(r))])

TwoObjects ==
    <<LB, TStr("a"), COLON, TNum(1), RB, WS, LB, TStr("b"), COLON, TNum(2), RB>>
ObjectInProse ==
    <<Noise(5), WS, LB, TStr("title"), COLON, WS, TStr("X"), RB, WS, Noise(14)>>

\* C6: what is parsed is the text from the first '{' of the reply to its
\* last '}': the request's outcome is that of json.loads on that text (its
\* value is parsed_data, or the request fails with JSONDecodeError).  An
\* object in prose is extracted; {"a":1} {"b":2} fails as malformed JSON.
C6_GreedySpan ==
    (AfterParse /\ SpanExists(response)) =>
        /\ LET r == json_loads(OuterSpan(response)) IN
           IF r.ok
           THEN parsed_data = r.val /\ caught \notin {"ValueError", "JSONDecodeError"}
           ELSE caught = "JSONDecodeError"
        /\ response = TwoObjects => caught = "JSONDecodeError"
        /\ response = ObjectInProse => parsed_data = O1("title", JStr("X"))

\* The two concatenated objects were the reply, and the request failed.
C6_Witness ==
    pc = "done" /\ response = TwoObjects /\ caught = "JSONDecodeError"

\* C7: the request fails with the no-JSON-found error exactly when the reply
\* has no '{' with a '}' somewhere after it; with such a pair the extraction
\* succeeds or fails as malformed JSON.
C7_NoJsonIffNoSpan ==
    AfterParse =>
        /\ caught = "ValueError" <=> ~SpanExists(response)
        /\ caught = "ValueError" => Last(out).args = <<NoJsonMsg>>
        /\ (SpanExists(response) /\ pc = "done" /\ ~Rendered) =>
              caught \in {"JSONDecodeError", "AttributeError", "TypeError"}

\* No JSON found in a reply that has both braces, the '}' first.
C7_Witness ==
    /\ AfterParse /\ caught = "ValueError"
    /\ Opens(response) # {} /\ Closes(response) # {}

\* C8: the message of either extractor failure carries the first RawLimit
\* characters of the reply.
C8_ExcerptInBothFailures ==
    (pc = "done" /\ caught \in {"ValueError", "JSONDecodeError"}) =>
        Last(out).raw = <<Prefix(response, RawLimit)>>

\* C9: no failure message follows the success message.
C9_NoFailureAfterSuccess ==
    \A i \in 1..Len(out) :
        out[i] = Success => \A j \in (i + 1)..Len(out) : out[j].kind # "error"

\* C10: a request that succeeds prints the seven headers once each, in the
\* fixed order, and each list-derived section has one entry per item of its
\* JSON array, in the array's order, repeated items included; nodes and
\* edges are serialized as they were parsed.
C10_SectionsAndItemsInOrder ==
    Rendered =>
        /\ \A k \in 1..7 : HeaderAt(k) # 0
        /\ \A k \in 1..6 : HeaderAt(k) < HeaderAt(k + 1)
        /\ Cardinality({i \in 1..Len(out) : out[i].kind = "header"}) = 7
        /\ \A i \in 1..Len(out) : out[i] = Success => i < HeaderAt(1)
        /\ IsList(TheShared) =>
              Sec(1) = [i \in 1..Len(TheShared.l) |->
                          Markdown("- {c}", <<py_str(TheShared.l[i])>>)]
        /\ IsList(TheUnique) => Sec(2) = UniqueAsRead(TheUnique.l, 1, TRUE)
        /\ IsList(TheSummaries) =>
              /\ Len(Sec(3)) = 3 * Len(TheSummaries.l)
              /\ \A i \in 1..Len(TheSummaries.l) :
                    Sec(3)[3 * i - 1].args =
                        <<py_str(Field(TheSummaries.l[i], "summary",
                                       JStr("No summary provided")))>>
        /\ IsList(TheStances) =>
              /\ Len(Sec(4)) = 1 + Len(TheStances.l)
              /\ \A i \in 1..Len(TheStances.l) :
                    Sec(4)[1 + i].args[3] =
                        py_str(Field(TheStances.l[i], "stance", JStr("No stance")))
        /\ Len(Sec(5)) = 1
        /\ Sec(5)[1].raw =
              <<json_dumps(Field(TheGraph, "nodes", JList(<<>>))),
                json_dumps(Field(TheGraph, "edges", JList(<<>>)))>>
        /\ IsList(TheConnections) =>
              /\ Len(Sec(7)) = Len(TheConnections.l)
              /\ \A i \in 1..Len(TheConnections.l) :
                    Sec(7)[i].args =
                        <<py_str(Field(TheConnections.l[i], "field", JStr("Unknown"))),
                          py_str(Field(TheConnections.l[i], "connection",
                                       JStr("No connection provided")))>>

\* A whole report whose lists hold a repeated item and are not sorted.
C10_Witness ==
    /\ Rendered
    /\ TheShared = Strs(<<"b", "a", "b">>)
    /\ Len(TheStances.l) > 2 /\ TheStances.l[1] = TheStances.l[3]
    /\ Len(TheConnections.l) > 3 /\ TheConnections.l[1] = TheConnections.l[4]
    /\ Len(Field(TheGraph, "nodes", JList(<<>>)).l) > 1

=============================================================================
